---- MODULE Spec2Model ----
(***************************************************************************)
(* A model of the two command-line tools of nichiki/transcribe:            *)
(* transcribe.py (audio -> transcript) and process_text.py (text ->        *)
(* summary / headline / custom), with the helpers of common.py.            *)
(*                                                                         *)
(* Text is modelled as a sequence of lines (tokens); a file name as a      *)
(* sequence of one-character strings, so that suffix, stem, lower-casing   *)
(* and glob matching are computed as pathlib / fnmatch compute them.       *)
(***************************************************************************)
EXTENDS Integers, Sequences, FiniteSets, TLC

VARIABLES
    tool,          \* "audio" (transcribe.py) or "text" (process_text.py)
    mode,          \* "cli": main() runs; "call": process_multiple_files is called directly;
                   \* "collect" / "prompt": a pure function is applied to the inputs
    posix,         \* TRUE on a case-sensitive platform (POSIX), FALSE on Windows
    args,          \* the parsed command line (argparse namespace)
    disk,          \* the input directory's entries, in on-disk (listing) order
    pfiles,        \* the prompt, template and rules files on disk
    edits,         \* how many rewrites of a prompt file the environment has left
    api_key,       \* TRUE when GEMINI_API_KEY is set to a usable value
    fs,            \* output path -> content, for the paths that exist
    pc,            \* position of main() / process_multiple_files
    files,         \* audio_files / text_files: the list the batch iterates
    i,             \* enumerate index of the batch loop (0 before the first item)
    successful,    \* process_multiple_files: successful
    failed,        \* process_multiple_files: failed
    failed_files,  \* process_multiple_files: failed_files
    prompt_text,   \* transcribe.py main: prompt_text
    cur,           \* the running single-item call (its locals and position)
    calls,         \* history: the remote calls issued so far, in order
    invoked,       \* history: the single-item processor's invocations, in order
    outcomes,      \* history: how each single-item call ended, in order
    top_error,     \* main: the exception caught by except Exception, if any
    exit_code,     \* the process exit status, None while running
    ret            \* the value a pure function returned, None before the call

vars == <<tool, mode, posix, args, disk, pfiles, edits, api_key, fs, pc, files, i,
          successful, failed, failed_files, prompt_text, cur, calls, invoked,
          outcomes, top_error, exit_code, ret>>

None == "None"

\* exit_code while the process runs
NoExit == 0 - 1

(***************************************************************************)
(* Bounds of the model.                                                    *)
(***************************************************************************)
\* most entries of the input directory / most items of a batch
MaxFiles == 2
\* most rewrites of a prompt file by the environment during one run
MaxEdits == 1
\* most rules of a rules file
MaxRules == 2

(***************************************************************************)
(* Characters and file names.                                              *)
(***************************************************************************)
\* Python compares str by code point
CodePoint(c) ==
    CASE c = "." -> 46 [] c = "3" -> 51
      [] c = "A" -> 65 [] c = "D" -> 68 [] c = "M" -> 77 [] c = "P" -> 80
      [] c = "T" -> 84 [] c = "X" -> 88
      [] c = "_" -> 95
      [] c = "a" -> 97 [] c = "b" -> 98 [] c = "c" -> 99 [] c = "d" -> 100
      [] c = "e" -> 101 [] c = "f" -> 102 [] c = "g" -> 103 [] c = "i" -> 105
      [] c = "l" -> 108 [] c = "m" -> 109 [] c = "o" -> 111 [] c = "p" -> 112
      [] c = "s" -> 115 [] c = "t" -> 116 [] c = "v" -> 118 [] c = "w" -> 119
      [] c = "x" -> 120
      [] OTHER -> 0

\* str.lower() on one character
LowerChar(c) ==
    CASE c = "A" -> "a" [] c = "D" -> "d" [] c = "M" -> "m" [] c = "P" -> "p"
      [] c = "T" -> "t" [] c = "X" -> "x"
      [] OTHER -> c

\* str.lower()
Lower(s) == [k \in 1..Len(s) |-> LowerChar(s[k])]

\* str.rfind('.') + 1: the 1-based index of the last dot, 0 when there is none
LastDot(s) ==
    LET dots == {k \in 1..Len(s) : s[k] = "."}
    IN IF dots = {} THEN 0 ELSE CHOOSE k \in dots : \A j \in dots : j <= k

\* PurePath.suffix: the last dot-suffix, '' for no dot, a leading or a trailing dot
Suffix(name) ==
    LET k == LastDot(name)
    IN IF 1 < k /\ k < Len(name) THEN SubSeq(name, k, Len(name)) ELSE <<>>

\* PurePath.stem
Stem(name) ==
    LET k == LastDot(name)
    IN IF 1 < k /\ k < Len(name) THEN SubSeq(name, 1, k - 1) ELSE name

\* str < str
RECURSIVE StrLess(_, _)
StrLess(s, t) ==
    IF t = <<>> THEN FALSE
    ELSE IF s = <<>> THEN TRUE
    ELSE IF s[1] = t[1] THEN StrLess(Tail(s), Tail(t))
    ELSE CodePoint(s[1]) < CodePoint(t[1])

\* the glob wildcards * and ? (fnmatch.fnmatchcase, one path component)
RECURSIVE MatchCase(_, _)
MatchCase(pat, s) ==
    IF pat = <<>> THEN s = <<>>
    ELSE IF pat[1] = "*"
         THEN MatchCase(Tail(pat), s) \/ (s # <<>> /\ MatchCase(pat, Tail(s)))
    ELSE IF s = <<>> THEN FALSE
    ELSE (pat[1] = "?" \/ pat[1] = s[1]) /\ MatchCase(Tail(pat), Tail(s))

\* os.path.normcase: the identity on POSIX, lower-casing on Windows
NormCase(s) == IF posix THEN s ELSE Lower(s)

\* fnmatch.fnmatch(name, pat): both sides go through os.path.normcase
FnMatch(name, pat) == MatchCase(NormCase(pat), NormCase(name))

(***************************************************************************)
(* Paths.  A path below the input directory is [dir, name, isdir]: dir is  *)
(* the sequence of sub-directory names under the root, name the last       *)
(* component.                                                              *)
(***************************************************************************)
AUDIO_EXTENSIONS ==
    << <<".", "m", "p", "3">>, <<".", "w", "a", "v">>, <<".", "a", "i", "f", "f">>,
       <<".", "a", "a", "c">>, <<".", "o", "g", "g">>, <<".", "f", "l", "a", "c">> >>

TEXT_EXTENSIONS ==
    << <<".", "t", "x", "t">>, <<".", "m", "d">>, <<".", "t", "e", "x", "t">> >>

Extensions(t) == IF t = "audio" THEN AUDIO_EXTENSIONS ELSE TEXT_EXTENSIONS

Range(s) == {s[k] : k \in 1..Len(s)}

\* PurePath.parts below the root
Parts(p) == p.dir \o <<p.name>>

\* list < list on the parts (PurePath.__lt__), case-folded on Windows
RECURSIVE PartsLess(_, _)
PartsLess(a, b) ==
    IF b = <<>> THEN FALSE
    ELSE IF a = <<>> THEN TRUE
    ELSE IF NormCase(a[1]) = NormCase(b[1]) THEN PartsLess(Tail(a), Tail(b))
    ELSE StrLess(NormCase(a[1]), NormCase(b[1]))

PathLess(p, q) == PartsLess(Parts(p), Parts(q))

\* list.insert keeping a sorted list sorted, after equal elements (a stable sort)
RECURSIVE Insert(_, _)
Insert(p, s) ==
    IF s = <<>> THEN <<p>>
    ELSE IF PathLess(p, s[1]) THEN <<p>> \o s
    ELSE <<s[1]>> \o Insert(p, Tail(s))

\* sorted(paths)
RECURSIVE Sorted(_)
Sorted(s) == IF s = <<>> THEN <<>> ELSE Insert(s[Len(s)], Sorted(SubSeq(s, 1, Len(s) - 1)))

\* Path.glob('*' + ext) / Path.rglob('*' + ext) over the listing: the last
\* component is matched against the pattern, case-sensitively on POSIX; glob
\* looks at the root's children only, rglob at every descendant.  Directories
\* whose name matches are yielded like files.
Glob(listing, recursive, ext) ==
    LET Keep(p) == (recursive \/ p.dir = <<>>) /\ FnMatch(p.name, <<"*">> \o ext)
    IN SelectSeq(listing, Keep)

\* the for-loop over the allow-list, extending the result list
RECURSIVE GlobAll(_, _, _)
GlobAll(listing, recursive, exts) ==
    IF exts = <<>> THEN <<>>
    ELSE Glob(listing, recursive, exts[1]) \o GlobAll(listing, recursive, Tail(exts))

\* collect_audio_files / collect_text_files
CollectFiles(t, listing, recursive, pattern) ==
    LET found == GlobAll(listing, recursive, Extensions(t))
        Keep(p) == FnMatch(p.name, pattern)
        kept == IF pattern # <<>> THEN SelectSeq(found, Keep) ELSE found
    IN Sorted(kept)

(***************************************************************************)
(* Results of calls.  A call either returns a value or raises; msg is the  *)
(* exception's str(), a sequence of message parts.                         *)
(***************************************************************************)
Return(v) == [ok |-> TRUE, val |-> v, type |-> None, msg |-> <<>>]

Raise(type, msg) == [ok |-> FALSE, val |-> <<>>, type |-> type, msg |-> msg]

\* no result yet
Pending == [ok |-> FALSE, val |-> <<>>, type |-> "pending", msg |-> <<>>]

(***************************************************************************)
(* Prompt composition (common.py).  A text is a sequence of lines, a line  *)
(* a pair <<label, value>>; the empty text <<>> is Python's ''.            *)
(***************************************************************************)
\* a file on disk: missing, or holding a content
Missing == [exists |-> FALSE, content |-> <<>>]

File(content) == [exists |-> TRUE, content |-> content]

\* the keys load_rules reads from a rule, in the code's order: id, 判定, 正解,
\* NG例, 条件, 文章例, 備考 (transliterated)
RuleKeys == <<"id", "hantei", "seikai", "ng_rei", "jouken", "bunshourei", "bikou">>

\* dict.get(key, '')
Get(rule, key) == IF key \in DOMAIN rule THEN rule[key] ELSE ""

\* mutant: the line is printed for every key the rule has ("if key in rule")
FieldLineIfKey(rule, key, label) ==
    IF key \in DOMAIN rule THEN << <<label, rule[key]>> >> ELSE <<>>

\* the line load_rules prints for a field, or nothing for a falsy value
FieldLine(rule, key, label) ==
    IF Get(rule, key) # "" THEN << <<label, Get(rule, key)>> >> ELSE <<>>

\* one pass of the for-loop of load_rules: the record of one rule
RuleRecord(rule) ==
    << <<"rule_header", Get(rule, "id")>> >>
    \o FieldLine(rule, "hantei", "hantei")
    \o FieldLine(rule, "seikai", "tadashii_hyouki")
    \o FieldLine(rule, "ng_rei", "ayamatta_hyouki")
    \o FieldLine(rule, "jouken", "jouken")
    \o FieldLine(rule, "bunshourei", "rei")
    \o FieldLine(rule, "bikou", "bikou")
    \o << <<"blank", "">> >>

RECURSIVE RuleRecords(_)
RuleRecords(rules_data) ==
    IF rules_data = <<>> THEN <<>>
    ELSE RuleRecord(rules_data[1]) \o RuleRecords(Tail(rules_data))

\* the two lines that open the rules block, and the line that closes it
RulesStart == << <<"start_marker", "">>, <<"instruction", "">> >>

RulesEnd == << <<"end_marker", "">> >>

\* mutant: the "if not rules_data" check is missing
LoadRulesNoEmptyCheck(rules_path) ==
    IF rules_path = None THEN Return(<<>>)
    ELSE IF ~pfiles.rules.exists
         THEN Raise("FileNotFoundError", <<"Rules file not found">>)
    ELSE Return(RulesStart \o RuleRecords(pfiles.rules.content) \o RulesEnd)

\* common.load_rules: val is the formatted text, <<>> standing for None
LoadRules(rules_path) ==
    IF rules_path = None THEN Return(<<>>)
    ELSE IF ~pfiles.rules.exists
         THEN Raise("FileNotFoundError", <<"Rules file not found">>)
    ELSE IF pfiles.rules.content = <<>> THEN Return(<<>>)
    ELSE Return(RulesStart \o RuleRecords(pfiles.rules.content) \o RulesEnd)

\* mutant: the task type is looked at before the custom path
BasePromptTypeFirst(prompt_type, custom_path) ==
    IF prompt_type # None
    THEN IF pfiles.template[prompt_type].exists
         THEN Return(pfiles.template[prompt_type].content)
         ELSE Raise("FileNotFoundError", <<"Default prompt not found">>)
    ELSE IF custom_path # None
    THEN IF ~pfiles.custom.exists
         THEN Raise("FileNotFoundError", <<"Prompt file not found">>)
         ELSE Return(pfiles.custom.content)
    ELSE Raise("ValueError", <<"Either prompt_type or custom_path must be specified">>)

\* common.load_prompt, the base prompt (lines 84-99)
BasePrompt(prompt_type, custom_path) ==
    IF custom_path # None
    THEN IF ~pfiles.custom.exists
         THEN Raise("FileNotFoundError", <<"Prompt file not found">>)
         ELSE Return(pfiles.custom.content)
    ELSE IF prompt_type # None
    THEN IF pfiles.template[prompt_type].exists
         THEN Return(pfiles.template[prompt_type].content)
         ELSE Raise("FileNotFoundError", <<"Default prompt not found">>)
    ELSE Raise("ValueError", <<"Either prompt_type or custom_path must be specified">>)

\* common.load_prompt
LoadPrompt(prompt_type, custom_path, rules_path) ==
    LET base == BasePrompt(prompt_type, custom_path)
        rules == LoadRules(rules_path)
    IN IF ~base.ok THEN base
       ELSE IF rules_path # None
            THEN IF ~rules.ok THEN rules
                 ELSE IF rules.val # <<>> THEN Return(rules.val \o base.val)
                 ELSE base
       ELSE base

\* the prompt hard-coded in transcribe.load_prompt
BuiltinPrompt == << <<"text", "builtin">> >>

\* transcribe.load_prompt
LoadAudioPrompt(prompt_path) ==
    IF prompt_path # None
    THEN IF ~pfiles.custom.exists
         THEN Raise("FileNotFoundError", <<"Prompt file not found">>)
         ELSE Return(pfiles.custom.content)
    ELSE IF pfiles.default.exists THEN Return(pfiles.default.content)
    ELSE Return(BuiltinPrompt)

(***************************************************************************)
(* Output paths and the remote service.                                    *)
(***************************************************************************)
Entry(dir, name) == [dir |-> dir, name |-> name, isdir |-> FALSE]

\* an output path: root is "in" (below the input directory), "out" (the
\* --output-dir directory) or "explicit" (the -o path)
OutPath(root, dir, name) == [root |-> root, dir |-> dir, name |-> name]

NoPath == OutPath(None, <<>>, <<>>)

\* -o out.txt
ExplicitOutput == OutPath("explicit", <<>>, <<"o", "u", "t">>)

\* f"{audio_path.stem}_transcript.txt"
TranscriptName(p) == Stem(p.name) \o <<"_transcript", ".txt">>

\* suffix = f"_{task}" if task != 'custom' else "_processed"; f"{stem}{suffix}.md"
ProcessedName(p, task) ==
    Stem(p.name) \o <<IF task # "custom" THEN "_" \o task ELSE "_processed", ".md">>

OutputName(t, p, task) == IF t = "audio" THEN TranscriptName(p) ELSE ProcessedName(p, task)

\* the batch loop's output_path: output_dir / name, or None
BatchOutput(t, p, output_dir, task) ==
    IF output_dir # None THEN OutPath("out", <<>>, OutputName(t, p, task)) ELSE NoPath

\* mutant: the path is derived from the input path even when one is given
ResolveOutputDerived(t, p, output_path, task) ==
    OutPath("in", p.dir, OutputName(t, p, task))

\* the single-item processor's output path resolution
ResolveOutput(t, p, output_path, task) ==
    IF output_path = NoPath THEN OutPath("in", p.dir, OutputName(t, p, task))
    ELSE output_path

\* Path.exists() of an input path
Exists(p) == p \in Range(disk)

\* audio_path.suffix.lower() in AUDIO_EXTENSIONS
Supported(t, p) == Lower(Suffix(p.name)) \in Range(Extensions(t))

\* what the remote generate_content call can do: raise, answer nothing, or
\* answer a response whose text may be empty
GenText == << <<"text", "generated">> >>

Responses ==
    { [kind |-> "error", text |-> <<>>], [kind |-> "none", text |-> <<>>],
      [kind |-> "text", text |-> <<>>], [kind |-> "text", text |-> GenText] }

\* mutant: the check reads "not response" alone
EmptyResponseNoneOnly(r) == r.kind = "none"

\* not response or not response.text
EmptyResponse(r) == r.kind = "none" \/ (r.kind = "text" /\ r.text = <<>>)

\* Path.write_text: the file at the path now holds the content
WriteText(f, path, content) == (path :> content) @@ f

(***************************************************************************)
(* The single-item call in progress.  response is the remote answer the    *)
(* call got, before the output files as they were when the call began.     *)
(***************************************************************************)
NoResponse == [kind |-> "pending", text |-> <<>>]

NoFiles == [p \in {} |-> <<>>]

Idle ==
    [ipc |-> "idle", item |-> 0, path |-> Entry(<<>>, <<>>), output |-> NoPath,
     uploaded |-> FALSE, prompt |-> <<>>, response |-> NoResponse, text |-> <<>>,
     delete_ok |-> TRUE, before |-> NoFiles, result |-> Return(<<>>)]

\* the call of transcribe_audio / process_text_file for item k
Call(k, p, output_path) ==
    [Idle EXCEPT !.ipc = "begin", !.item = k, !.path = p, !.output = output_path,
                 !.before = fs]

\* history: the call that has just ended, with its result
Ended(c) ==
    outcomes' = IF c.ipc = "returned"
                THEN Append(outcomes, [item |-> c.item, name |-> c.path.name,
                                       result |-> c.result])
                ELSE outcomes

\* the call ends by raising
Raised(c, type, msg) == [c EXCEPT !.ipc = "returned", !.result = Raise(type, msg)]

(***************************************************************************)
(* transcribe.transcribe_audio, step by step.                              *)
(***************************************************************************)
Running == mode \in {"cli", "call"} /\ pc \in {"single", "item"}

env == <<tool, mode, posix, args, disk, api_key>>

batch == <<files, i, successful, failed, failed_files>>

\* lines 84-110: the checks, the output path, the client
BeginAudio ==
    /\ Running /\ tool = "audio" /\ cur.ipc = "begin"
    /\ cur' =
         IF ~Exists(cur.path)
         THEN Raised(cur, "FileNotFoundError", <<"Audio file not found">>)
         ELSE IF ~Supported("audio", cur.path)
         THEN Raised(cur, "ValueError", <<"Unsupported audio format">>)
         ELSE IF ~api_key
         THEN Raised([cur EXCEPT !.output = ResolveOutput("audio", cur.path, cur.output, None)],
                     "ValueError", <<"Please set your GEMINI_API_KEY in the .env file">>)
         ELSE [cur EXCEPT !.ipc = "upload",
                          !.output = ResolveOutput("audio", cur.path, cur.output, None)]
    /\ Ended(cur')
    /\ UNCHANGED <<env, batch, pfiles, edits, fs, pc, prompt_text, calls, invoked,
                   exit_code, ret,
                   top_error>>

\* mutant: the upload sits inside the try block whose finally deletes the
\* attachment, so a failed upload still reaches the delete call
UploadAudioInTry ==
    /\ Running /\ tool = "audio" /\ cur.ipc = "upload"
    /\ calls' = Append(calls, [op |-> "upload", item |-> cur.item, prompt |-> <<>>])
    /\ \/ cur' = [cur EXCEPT !.ipc = "generate", !.uploaded = TRUE]
       \/ cur' = [cur EXCEPT !.ipc = "cleanup",
                    !.result = Raise("Exception",
                                     <<"Failed to upload audio file", "upload error">>)]
    /\ Ended(cur')
    /\ UNCHANGED <<env, batch, pfiles, edits, fs, pc, prompt_text, invoked, exit_code, ret,
                   top_error>>

\* lines 112-117: client.files.upload
UploadAudio ==
    /\ Running /\ tool = "audio" /\ cur.ipc = "upload"
    /\ calls' = Append(calls, [op |-> "upload", item |-> cur.item, prompt |-> <<>>])
    /\ \/ cur' = [cur EXCEPT !.ipc = "generate", !.uploaded = TRUE]
       \/ cur' = Raised(cur, "Exception", <<"Failed to upload audio file", "upload error">>)
    /\ Ended(cur')
    /\ UNCHANGED <<env, batch, pfiles, edits, fs, pc, prompt_text, invoked, exit_code, ret,
                   top_error>>

\* line 120: prompt_text if prompt_text else load_prompt()
AudioPrompt(given) == IF given # <<>> THEN given ELSE LoadAudioPrompt(None).val

\* lines 119-137 and 150-151: the prompt, client.models.generate_content, the
\* empty-response check
GenerateAudio ==
    /\ Running /\ tool = "audio" /\ cur.ipc = "generate"
    /\ LET prompt == AudioPrompt(prompt_text)
       IN /\ calls' = Append(calls, [op |-> "generate", item |-> cur.item, prompt |-> prompt])
          /\ \E r \in Responses :
               cur' =
                 IF r.kind = "error"
                 THEN [cur EXCEPT !.ipc = "cleanup", !.prompt = prompt, !.response = r,
                         !.result = Raise("Exception",
                                          <<"Failed to generate transcript", "api error">>)]
                 ELSE IF EmptyResponse(r)
                 THEN [cur EXCEPT !.ipc = "cleanup", !.prompt = prompt, !.response = r,
                         !.result = Raise("Exception",
                                          <<"Failed to generate transcript",
                                            "Gemini API returned empty response">>)]
                 ELSE [cur EXCEPT !.ipc = "write", !.prompt = prompt, !.response = r,
                                  !.text = r.text]
    /\ Ended(cur')
    /\ UNCHANGED <<env, batch, pfiles, edits, fs, pc, prompt_text, invoked, exit_code, ret,
                   top_error>>

\* lines 139-151: output_path.write_text, which may fail
WriteAudio ==
    /\ Running /\ tool = "audio" /\ cur.ipc = "write"
    /\ \/ /\ fs' = WriteText(fs, cur.output, cur.text)
          /\ cur' = [cur EXCEPT !.ipc = "cleanup"]
       \/ /\ fs' = fs
          /\ cur' = [cur EXCEPT !.ipc = "cleanup",
                       !.result = Raise("Exception",
                                        <<"Failed to generate transcript", "write error">>)]
    /\ Ended(cur')
    /\ UNCHANGED <<env, batch, pfiles, edits, pc, prompt_text, calls, invoked, exit_code, ret,
                   top_error>>

\* mutant: the delete call follows the try block instead of sitting in finally,
\* so a pending exception passes it by
CleanupAudioAfterTry ==
    /\ Running /\ tool = "audio" /\ cur.ipc = "cleanup"
    /\ IF cur.result.ok
       THEN /\ calls' = Append(calls, [op |-> "delete", item |-> cur.item, prompt |-> <<>>])
            /\ \E ok \in BOOLEAN : cur' = [cur EXCEPT !.ipc = "returned", !.delete_ok = ok]
       ELSE /\ calls' = calls
            /\ cur' = [cur EXCEPT !.ipc = "returned"]
    /\ Ended(cur')
    /\ UNCHANGED <<env, batch, pfiles, edits, fs, pc, prompt_text, invoked, exit_code, ret,
                   top_error>>

\* lines 152-157: finally: client.files.delete, its failure passed over; then
\* the call returns, or the pending exception goes on to the caller
CleanupAudio ==
    /\ Running /\ tool = "audio" /\ cur.ipc = "cleanup"
    /\ calls' = Append(calls, [op |-> "delete", item |-> cur.item, prompt |-> <<>>])
    /\ \E ok \in BOOLEAN : cur' = [cur EXCEPT !.ipc = "returned", !.delete_ok = ok]
    /\ Ended(cur')
    /\ UNCHANGED <<env, batch, pfiles, edits, fs, pc, prompt_text, invoked, exit_code, ret,
                   top_error>>

(***************************************************************************)
(* process_text.process_text_file, step by step.                           *)
(***************************************************************************)
\* lines 78-81: the prompt of the call, loaded from the files as they are now
TextPrompt(task, prompt_path, rules_path) ==
    IF prompt_path # None THEN LoadPrompt(None, prompt_path, rules_path)
    ELSE LoadPrompt(task, None, rules_path)

\* lines 53-88: the checks, the output path, the prompt, the client
BeginText ==
    /\ Running /\ tool = "text" /\ cur.ipc = "begin"
    /\ LET out == [cur EXCEPT !.output = ResolveOutput("text", cur.path, cur.output, args.task)]
           prompt == TextPrompt(args.task, args.prompt, args.rules)
       IN cur' =
            IF ~Exists(cur.path)
            THEN Raised(cur, "FileNotFoundError", <<"Text file not found">>)
            ELSE IF ~Supported("text", cur.path)
            THEN Raised(cur, "ValueError", <<"Unsupported text format">>)
            ELSE IF args.task = "custom" /\ args.prompt = None
            THEN Raised(out, "ValueError", <<"Custom task requires a prompt file (--prompt)">>)
            ELSE IF ~prompt.ok THEN Raised(out, prompt.type, prompt.msg)
            ELSE IF ~api_key
            THEN Raised([out EXCEPT !.prompt = prompt.val], "ValueError",
                        <<"Please set your GEMINI_API_KEY in the .env file">>)
            ELSE [out EXCEPT !.ipc = "generate", !.prompt = prompt.val]
    /\ Ended(cur')
    /\ UNCHANGED <<env, batch, pfiles, edits, fs, pc, prompt_text, calls, invoked,
                   exit_code, ret,
                   top_error>>

\* mutant: a call that raised is issued a second time
GenerateTextRetry ==
    /\ Running /\ tool = "text" /\ cur.ipc = "generate"
    /\ \E r \in Responses :
         /\ calls' =
              IF r.kind = "error"
              THEN calls \o << [op |-> "generate", item |-> cur.item, prompt |-> cur.prompt],
                               [op |-> "generate", item |-> cur.item, prompt |-> cur.prompt] >>
              ELSE Append(calls, [op |-> "generate", item |-> cur.item, prompt |-> cur.prompt])
         /\ cur' =
              IF r.kind = "error"
              THEN Raised([cur EXCEPT !.response = r], "Exception",
                          <<"Failed to process text", "api error">>)
              ELSE IF EmptyResponse(r)
              THEN Raised([cur EXCEPT !.response = r], "Exception",
                          <<"Failed to process text", "Gemini API returned empty response">>)
              ELSE [cur EXCEPT !.ipc = "write", !.response = r, !.text = r.text]
    /\ Ended(cur')
    /\ UNCHANGED <<env, batch, pfiles, edits, fs, pc, prompt_text, invoked, exit_code, ret,
                   top_error>>

\* process_text lines 90-91, 97-98 and common.generate_with_gemini
GenerateText ==
    /\ Running /\ tool = "text" /\ cur.ipc = "generate"
    /\ calls' = Append(calls, [op |-> "generate", item |-> cur.item, prompt |-> cur.prompt])
    /\ \E r \in Responses :
         cur' =
           IF r.kind = "error"
           THEN Raised([cur EXCEPT !.response = r], "Exception",
                       <<"Failed to process text", "api error">>)
           ELSE IF EmptyResponse(r)
           THEN Raised([cur EXCEPT !.response = r], "Exception",
                       <<"Failed to process text", "Gemini API returned empty response">>)
           ELSE [cur EXCEPT !.ipc = "write", !.response = r, !.text = r.text]
    /\ Ended(cur')
    /\ UNCHANGED <<env, batch, pfiles, edits, fs, pc, prompt_text, invoked, exit_code, ret,
                   top_error>>

\* process_text lines 92-98 and common.save_output
SaveText ==
    /\ Running /\ tool = "text" /\ cur.ipc = "write"
    /\ \/ /\ fs' = WriteText(fs, cur.output, cur.text)
          /\ cur' = [cur EXCEPT !.ipc = "returned"]
       \/ /\ fs' = fs
          /\ cur' = Raised(cur, "Exception", <<"Failed to process text", "write error">>)
    /\ Ended(cur')
    /\ UNCHANGED <<env, batch, pfiles, edits, pc, prompt_text, calls, invoked, exit_code, ret,
                   top_error>>

(***************************************************************************)
(* process_multiple_files (both tools).                                    *)
(***************************************************************************)
\* the loop head and the call of the single-item processor
BatchNext ==
    /\ mode \in {"cli", "call"} /\ pc = "loop" /\ i < Len(files)
    /\ i' = i + 1
    /\ cur' = Call(i + 1, files[i + 1],
                   BatchOutput(tool, files[i + 1], args.output_dir, args.task))
    /\ invoked' = Append(invoked, [item |-> i + 1, path |-> files[i + 1]])
    /\ pc' = "item"
    /\ UNCHANGED <<env, files, successful, failed, failed_files, pfiles, edits, fs,
                   prompt_text, calls, exit_code, ret,
                   outcomes, top_error>>

\* mutant: the except clause ends the loop: the tally is returned at once
BatchRecordBreak ==
    /\ mode \in {"cli", "call"} /\ pc = "item" /\ cur.ipc = "returned"
    /\ IF cur.result.ok
       THEN /\ successful' = successful + 1
            /\ pc' = "loop"
            /\ UNCHANGED <<failed, failed_files, ret, exit_code>>
       ELSE /\ failed' = failed + 1
            /\ failed_files' = Append(failed_files, <<cur.path.name, cur.result.msg>>)
            /\ ret' = Return(<<successful, failed + 1>>)
            /\ pc' = (IF mode = "cli" THEN "exit" ELSE "done")
            /\ exit_code' = (IF mode = "cli" THEN 1 ELSE exit_code)
            /\ UNCHANGED successful
    /\ UNCHANGED <<env, files, i, pfiles, edits, fs, prompt_text, cur, calls, invoked,
                   outcomes, top_error>>

\* mutant: the except clause counts the failure and forgets the failure list
BatchRecordNoList ==
    /\ mode \in {"cli", "call"} /\ pc = "item" /\ cur.ipc = "returned"
    /\ IF cur.result.ok
       THEN /\ successful' = successful + 1
            /\ UNCHANGED failed
       ELSE /\ failed' = failed + 1
            /\ UNCHANGED successful
    /\ pc' = "loop"
    /\ UNCHANGED <<env, files, i, failed_files, pfiles, edits, fs, prompt_text, cur, calls,
                   invoked, exit_code, ret, outcomes, top_error>>

\* successful += 1, or the except clause: failed += 1 and the failure list
BatchRecord ==
    /\ mode \in {"cli", "call"} /\ pc = "item" /\ cur.ipc = "returned"
    /\ IF cur.result.ok
       THEN /\ successful' = successful + 1
            /\ UNCHANGED <<failed, failed_files>>
       ELSE /\ failed' = failed + 1
            /\ failed_files' = Append(failed_files, <<cur.path.name, cur.result.msg>>)
            /\ UNCHANGED successful
    /\ pc' = "loop"
    /\ UNCHANGED <<env, files, i, pfiles, edits, fs, prompt_text, cur, calls, invoked,
                   exit_code, ret,
                   outcomes, top_error>>

\* mutant: main ignores the failure count
BatchReturnZero ==
    /\ mode \in {"cli", "call"} /\ pc = "loop" /\ i = Len(files)
    /\ ret' = Return(<<successful, failed>>)
    /\ IF mode = "cli"
       THEN /\ exit_code' = 0
            /\ pc' = "exit"
       ELSE /\ exit_code' = exit_code
            /\ pc' = "done"
    /\ UNCHANGED <<env, batch, pfiles, edits, fs, prompt_text, cur, calls, invoked,
                   outcomes, top_error>>

\* the summary and return successful, failed; in main, the exit status
BatchReturn ==
    /\ mode \in {"cli", "call"} /\ pc = "loop" /\ i = Len(files)
    /\ ret' = Return(<<successful, failed>>)
    /\ IF mode = "cli"
       THEN /\ exit_code' = (IF failed > 0 THEN 1 ELSE 0)
            /\ pc' = "exit"
       ELSE /\ exit_code' = exit_code
            /\ pc' = "done"
    /\ UNCHANGED <<env, batch, pfiles, edits, fs, prompt_text, cur, calls, invoked,
                   outcomes, top_error>>

(***************************************************************************)
(* main() of transcribe.py and of process_text.py.                         *)
(***************************************************************************)
\* transcribe.py line 268: the prompt is loaded first; process_text.py loads
\* none in main
MainPrompt == IF tool = "audio" THEN LoadAudioPrompt(args.prompt) ELSE Return(<<>>)

Exit(code) ==
    /\ exit_code' = code
    /\ pc' = "exit"

\* if not input_path.exists(): sys.exit(1)
MainMissing ==
    /\ mode = "cli" /\ pc = "start" /\ args.kind = "missing"
    /\ Exit(1)
    /\ UNCHANGED <<env, batch, pfiles, edits, fs, prompt_text, cur, calls, invoked, ret,
                   outcomes, top_error>>

\* load_prompt raises: except Exception: sys.exit(1)
MainPromptError ==
    /\ mode = "cli" /\ pc = "start" /\ args.kind # "missing"
    /\ ~MainPrompt.ok
    /\ top_error' = MainPrompt
    /\ Exit(1)
    /\ UNCHANGED <<env, batch, pfiles, edits, fs, prompt_text, cur, calls, invoked, ret,
                   outcomes>>

\* input_path.is_file(): the single-item processor is called
MainSingle ==
    /\ mode = "cli" /\ pc = "start" /\ args.kind = "file"
    /\ MainPrompt.ok
    /\ prompt_text' = MainPrompt.val
    /\ cur' = Call(1, args.input, args.output)
    /\ invoked' = Append(invoked, [item |-> 1, path |-> args.input])
    /\ pc' = "single"
    /\ UNCHANGED <<env, batch, pfiles, edits, fs, calls, exit_code, ret,
                   outcomes, top_error>>

\* input_path.is_dir(): mkdir of the output directory, discovery, then either
\* "no files found" and sys.exit(0), or the batch
MainDir ==
    /\ mode = "cli" /\ pc = "start" /\ args.kind = "dir"
    /\ MainPrompt.ok
    /\ prompt_text' = MainPrompt.val
    /\ \/ /\ args.output_dir # None
          /\ top_error' = Raise("OSError", <<"mkdir failed">>)
          /\ Exit(1)
          /\ UNCHANGED files
       \/ LET found == CollectFiles(tool, disk, args.recursive, args.pattern)
          IN /\ files' = found
             /\ top_error' = top_error
             /\ IF found = <<>> THEN Exit(0)
                ELSE pc' = "loop" /\ exit_code' = exit_code
    /\ UNCHANGED <<env, i, successful, failed, failed_files, pfiles, edits, fs, cur,
                   calls, invoked, ret,
                   outcomes>>

\* neither a file nor a directory: sys.exit(1)
MainOther ==
    /\ mode = "cli" /\ pc = "start" /\ args.kind = "other"
    /\ MainPrompt.ok
    /\ Exit(1)
    /\ prompt_text' = MainPrompt.val
    /\ UNCHANGED <<env, batch, pfiles, edits, fs, cur, calls, invoked, ret,
                   outcomes, top_error>>

\* the single-item call returns (exit status 0) or raises into
\* except Exception: sys.exit(1)
SingleReturn ==
    /\ mode = "cli" /\ pc = "single" /\ cur.ipc = "returned"
    /\ top_error' = (IF cur.result.ok THEN top_error ELSE cur.result)
    /\ Exit(IF cur.result.ok THEN 0 ELSE 1)
    /\ UNCHANGED <<env, batch, pfiles, edits, fs, prompt_text, cur, calls, invoked, ret,
                   outcomes>>

(***************************************************************************)
(* The environment: another process rewrites a prompt, template or rules   *)
(* file while the tool runs.                                               *)
(***************************************************************************)
EditedText == << <<"text", "edited">> >>

EditedRules == << [id |-> "edited"] >>

Rewrites(pf) ==
    (IF tool = "audio"
     THEN {[pf EXCEPT !.custom = File(EditedText)], [pf EXCEPT !.default = File(EditedText)]}
     ELSE {[pf EXCEPT !.custom = File(EditedText)],
           [pf EXCEPT !.template = [t \in DOMAIN pf.template |-> File(EditedText)]],
           [pf EXCEPT !.rules = File(EditedRules)]})
    \ {pf}

EditFile ==
    /\ mode \in {"cli", "call"} /\ pc \in {"start", "single", "loop", "item"}
    /\ edits > 0
    /\ edits' = edits - 1
    /\ pfiles' \in Rewrites(pfiles)
    /\ UNCHANGED <<env, batch, fs, pc, prompt_text, cur, calls, invoked, exit_code, ret,
                   outcomes, top_error>>

(***************************************************************************)
(* The inputs of a run.                                                    *)
(***************************************************************************)
Tools == {"audio", "text"}

Pdf == <<".", "p", "d", "f">>

UpperExt(t) == IF t = "audio" THEN <<".", "M", "P", "3">> ELSE <<".", "T", "X", "T">>

\* the files a run can meet: a.<ext1>, a.<ext2>, c.pdf and sub/a.<ext1>
Universe(t) ==
    << Entry(<<>>, <<"a">> \o Extensions(t)[1]),
       Entry(<<>>, <<"a">> \o Extensions(t)[2]),
       Entry(<<>>, <<"c">> \o Pdf),
       Entry(<< <<"s", "u", "b">> >>, <<"a">> \o Extensions(t)[1]) >>

\* for a directory, also A.<EXT1>
DirUniverse(t) == Universe(t) \o << Entry(<<>>, <<"A">> \o UpperExt(t)) >>

\* for discovery alone, also a directory named d.<ext1>
WideUniverse(t) ==
    DirUniverse(t)
    \o << [dir |-> <<>>, name |-> <<"d">> \o Extensions(t)[1], isdir |-> TRUE] >>

\* the sequences of at most n distinct elements of S
Listings(S, n) ==
    UNION {{s \in [1..k -> S] : \A a, b \in 1..k : a # b => s[a] # s[b]} : k \in 0..n}

Pos(u, e) == CHOOSE k \in 1..Len(u) : u[k] = e

\* one listing per set of entries
Disks(u, n) ==
    {s \in Listings(Range(u), n) : \A k \in 1..(Len(s) - 1) : Pos(u, s[k]) > Pos(u, s[k + 1])}

\* the sequences of at most n elements of S
Lists(S, n) == UNION {[1..k -> S] : k \in 0..n}

Patterns == {<<>>, <<"a", "*">>, <<"*", ".", "m", "d">>, <<"?", ".", "t", "x", "t">>}

PromptText == << <<"text", "custom">> >>

DefaultText == << <<"text", "default">> >>

TemplateText(task) == << <<"text", task>> >>

Templates == {"summarize", "headline"}

NoPromptFiles ==
    [custom |-> Missing, default |-> Missing,
     template |-> [t \in Templates |-> Missing], rules |-> Missing]

AllTemplates == [t \in Templates |-> File(TemplateText(t))]

OneRule == [id |-> "r1", hantei |-> "ok", bikou |-> ""]

\* the prompt options and prompt files of a transcribe.py run; a file no
\* option refers to is left out
AudioPrompts ==
    {[task |-> None, prompt |-> pr, rules |-> None,
      pfiles |-> [NoPromptFiles EXCEPT !.custom = c, !.default = d]] :
        <<pr, c, d>> \in
          {x \in {None, "custom.txt"} \X {Missing, File(<<>>), File(PromptText)}
                 \X {Missing, File(DefaultText)} :
             /\ x[1] = None => x[2] = Missing
             /\ (x[1] # None /\ x[2] # File(<<>>)) => x[3] = Missing}}

\* the task, prompt and rules options and the files of a process_text.py run
TextPrompts ==
    {[task |-> x[1], prompt |-> x[2], rules |-> x[3],
      pfiles |-> [custom |-> x[4], default |-> Missing,
                  template |-> [t \in Templates |->
                                  IF t = x[1] /\ ~x[5] THEN Missing
                                  ELSE File(TemplateText(t))],
                  rules |-> x[6]]] :
        x \in {y \in {"summarize", "headline", "custom"} \X {None, "custom.txt"}
                     \X {None, "rules.yaml"} \X {Missing, File(PromptText)}
                     \X BOOLEAN \X {Missing, File(<<>>), File(<<OneRule>>)} :
                 /\ y[2] = None => y[4] = Missing
                 /\ y[3] = None => y[6] = Missing
                 /\ (y[1] = "custom" \/ y[2] # None) => y[5]}}

PromptOptions(t) == IF t = "audio" THEN AudioPrompts ELSE TextPrompts

\* no --prompt and no --rules, the default task, the built-in prompt
PlainOptions(t) ==
    IF t = "audio"
    THEN [task |-> None, prompt |-> None, rules |-> None, pfiles |-> NoPromptFiles]
    ELSE [task |-> "summarize", prompt |-> None, rules |-> None,
          pfiles |-> [NoPromptFiles EXCEPT !.template = AllTemplates]]

Args(kind, input, output, output_dir, recursive, pattern, o) ==
    [kind |-> kind, input |-> input, output |-> output, output_dir |-> output_dir,
     recursive |-> recursive, pattern |-> pattern,
     task |-> o.task, prompt |-> o.prompt, rules |-> o.rules]

Run(t, m, px, a, d, o, e, key, old, list, given) ==
    [tool |-> t, mode |-> m, posix |-> px, args |-> a, disk |-> d, pfiles |-> o.pfiles, edits |-> e,
     api_key |-> key, old |-> old, files |-> list, prompt_text |-> given]

NoEntry == Entry(<<>>, <<>>)

\* the listing with the most entries
FullDisk(t) == CHOOSE d \in Disks(Universe(t), MaxFiles) : Len(d) = MaxFiles

\* main() on a directory: every content, flag and pattern, the plain prompt
DirRuns(t) ==
    {Run(t, "cli", px, Args("dir", NoEntry, NoPath, od, rec, pat, PlainOptions(t)), d,
         PlainOptions(t), 0, TRUE, old, <<>>, <<>>) :
        px \in BOOLEAN, d \in Disks(DirUniverse(t), MaxFiles), od \in {None, "out"},
        rec \in BOOLEAN, pat \in {<<>>, <<"a", "*">>}, old \in BOOLEAN}

\* main() on a directory: every prompt option, with and without a credential,
\* with and without a rewrite of a prompt file during the run
PromptRuns(t) ==
    {Run(t, "cli", TRUE, Args("dir", NoEntry, NoPath, None, TRUE, <<>>, o), FullDisk(t),
         o, e, key, FALSE, <<>>, <<>>) :
        o \in PromptOptions(t), e \in {0, MaxEdits}, key \in BOOLEAN}

\* main() on a single file
SingleRuns(t) ==
    {Run(t, "cli", TRUE, Args("file", f, out, None, FALSE, <<>>, o), <<f>>,
         o, 0, key, old, <<>>, <<>>) :
        f \in {Universe(t)[1], Universe(t)[3]}, out \in {NoPath, ExplicitOutput},
        o \in PromptOptions(t), key \in BOOLEAN, old \in BOOLEAN}

\* main() on a path that does not exist, or is neither file nor directory
OtherRuns(t) ==
    {Run(t, "cli", TRUE, Args(kind, NoEntry, NoPath, None, FALSE, <<>>, o), <<>>,
         o, 0, TRUE, FALSE, <<>>, <<>>) :
        kind \in {"missing", "other"}, o \in PromptOptions(t)}

\* process_multiple_files called with any list, of files on disk or not
CallRuns(t) ==
    {Run(t, "call", TRUE, Args("dir", NoEntry, NoPath, od, FALSE, <<>>, PlainOptions(t)), d,
         PlainOptions(t), 0, TRUE, FALSE, list, given) :
        d \in {dd \in Disks(Universe(t), 4) : Len(dd) >= 3},
        od \in {None, "out"},
        list \in Lists(Range(Universe(t)), MaxFiles) \ {<<>>},
        given \in IF t = "audio" THEN {<<>>, PromptText} ELSE {<<>>}}

Runs == UNION {DirRuns(t) \cup PromptRuns(t) \cup SingleRuns(t) \cup OtherRuns(t)
               \cup CallRuns(t) : t \in Tools}

OldText == << <<"text", "old">> >>

\* the output paths a run can write to
Candidates(r) ==
    {ExplicitOutput}
    \cup {ResolveOutput(r.tool, e, BatchOutput(r.tool, e, r.args.output_dir, r.args.task),
                        r.args.task) : e \in Range(DirUniverse(r.tool))}

Start(r) ==
    /\ tool = r.tool /\ mode = r.mode /\ posix = r.posix
    /\ args = r.args /\ disk = r.disk /\ pfiles = r.pfiles /\ edits = r.edits
    /\ api_key = r.api_key
    /\ fs = [p \in (IF r.old THEN Candidates(r) ELSE {}) |-> OldText]
    /\ pc = (IF r.mode = "cli" THEN "start" ELSE "loop")
    /\ files = r.files /\ i = 0 /\ successful = 0 /\ failed = 0 /\ failed_files = <<>>
    /\ prompt_text = r.prompt_text
    /\ cur = Idle /\ calls = <<>> /\ invoked = <<>> /\ outcomes = <<>>
    /\ top_error = Pending
    /\ exit_code = NoExit /\ ret = Pending

Init == \E r \in Runs : Start(r)

Next ==
    \/ MainMissing \/ MainPromptError \/ MainSingle \/ MainDir \/ MainOther
    \/ SingleReturn
    \/ BatchNext \/ BatchRecord \/ BatchReturn
    \/ BeginAudio \/ UploadAudio \/ GenerateAudio \/ WriteAudio \/ CleanupAudio
    \/ BeginText \/ GenerateText \/ SaveText
    \/ EditFile

Spec == Init /\ [][Next]_vars

(***************************************************************************)
(* collect_audio_files / collect_text_files applied to a directory.        *)
(***************************************************************************)
\* most entries of a directory handed to the discoverer alone
MaxListing == 3

CollectRuns(t) ==
    {Run(t, "collect", px, Args("dir", NoEntry, NoPath, None, rec, pat, PlainOptions(t)), d,
         PlainOptions(t), 0, TRUE, FALSE, <<>>, <<>>) :
        px \in BOOLEAN, rec \in BOOLEAN, pat \in Patterns,
        d \in Listings(Range(WideUniverse(t)), MaxListing)}

InitCollect == \E t \in Tools : \E r \in CollectRuns(t) : Start(r)

CollectCall ==
    /\ mode = "collect" /\ pc = "loop"
    /\ files' = CollectFiles(tool, disk, args.recursive, args.pattern)
    /\ ret' = Return(<<>>)
    /\ pc' = "done"
    /\ UNCHANGED <<env, i, successful, failed, failed_files, pfiles, edits, fs,
                   prompt_text, cur, calls, invoked, outcomes, top_error, exit_code>>

SpecCollect == InitCollect /\ [][CollectCall]_vars

(***************************************************************************)
(* common.load_prompt applied to its arguments and the files on disk.      *)
(***************************************************************************)
\* the rules a rules file can hold: each field alone, each field left out,
\* all fields, none, and a field present but empty
FullRule == [k \in Range(RuleKeys) |-> "v"]

RuleUniverse ==
    {[k \in {key} |-> "v"] : key \in Range(RuleKeys)}
    \cup {[k \in Range(RuleKeys) \ {key} |-> "v"] : key \in Range(RuleKeys)}
    \cup {FullRule, [k \in {} |-> "v"], OneRule}

LoadPromptRuns ==
    {Run("text", "prompt", TRUE,
         Args("dir", NoEntry, NoPath, None, FALSE, <<>>,
              [task |-> ty, prompt |-> pr, rules |-> ru]),
         <<>>,
         [pfiles |-> [custom |-> c, default |-> Missing,
                      template |-> [t \in Templates |->
                                      IF t \in tm THEN File(TemplateText(t)) ELSE Missing],
                      rules |-> rf]],
         0, TRUE, FALSE, <<>>, <<>>) :
        ty \in {None} \cup Templates, pr \in {None, "custom.txt"},
        ru \in {None, "rules.yaml"},
        c \in {Missing, File(<<>>), File(PromptText)},
        tm \in SUBSET Templates,
        rf \in {Missing, File(<<>>), File(<<OneRule>>)}}

\* load_prompt with a rules path and every non-empty rules file, on a template
\* or a custom prompt
RulesRuns ==
    {Run("text", "prompt", TRUE,
         Args("dir", NoEntry, NoPath, None, FALSE, <<>>,
              [task |-> "summarize", prompt |-> pr, rules |-> "rules.yaml"]),
         <<>>,
         [pfiles |-> [custom |-> IF pr = None THEN Missing ELSE File(PromptText),
                      default |-> Missing, template |-> AllTemplates,
                      rules |-> File(d)]],
         0, TRUE, FALSE, <<>>, <<>>) :
        pr \in {None, "custom.txt"}, d \in Lists(RuleUniverse, MaxRules) \ {<<>>}}

InitPrompt == \E r \in LoadPromptRuns \cup RulesRuns : Start(r)

\* load_prompt(prompt_type, custom_path, rules_path)
PromptCall ==
    /\ mode = "prompt" /\ pc = "loop"
    /\ ret' = LoadPrompt(args.task, args.prompt, args.rules)
    /\ pc' = "done"
    /\ UNCHANGED <<env, batch, pfiles, edits, fs, prompt_text, cur, calls, invoked,
                   outcomes, top_error, exit_code>>

SpecPrompt == InitPrompt /\ [][PromptCall]_vars

(***************************************************************************)
(* Properties.                                                             *)
(***************************************************************************)
\* the run is a batch: process_multiple_files runs, from main or called directly
Batched == mode = "call" \/ (mode = "cli" /\ args.kind = "dir")

\* the positions in calls of the remote calls op for item k
CallsOf(op, k) == {n \in 1..Len(calls) : calls[n].op = op /\ calls[n].item = k}

\* the single-item calls whose end the batch driver has taken note of
Noted ==
    IF pc = "item" /\ cur.ipc = "returned"
    THEN SubSeq(outcomes, 1, Len(outcomes) - 1)
    ELSE outcomes

FailuresOf(outs) ==
    LET IsFailure(o) == ~o.result.ok
    IN SelectSeq(outs, IsFailure)

\* C1: in a batch the single-item processor is invoked once per list element,
\* in list order, and when process_multiple_files returns every element has
\* been invoked, whatever items failed before.
C1_InOrderNoAbort ==
    Batched =>
      /\ Len(invoked) <= Len(files)
      /\ \A k \in 1..Len(invoked) : invoked[k] = [item |-> k, path |-> files[k]]
      /\ Len(outcomes) \in {Len(invoked) - 1, Len(invoked)}
      /\ \A k \in 1..Len(outcomes) : outcomes[k].item = k
      /\ ret.ok => Len(invoked) = Len(files) /\ Len(outcomes) = Len(files)

\* C1 witness: a batch of two returned although its first item failed
C1_Witness ==
    /\ mode = "call" /\ ret.ok /\ Len(files) = 2 /\ Len(invoked) = 2
    /\ ~outcomes[1].result.ok /\ outcomes[2].result.ok

C2_Tally ==
    Batched =>
      /\ successful + failed = Len(Noted)
      /\ failed = Len(FailuresOf(Noted))
      /\ failed_files = [k \in 1..Len(FailuresOf(Noted)) |->
                           <<FailuresOf(Noted)[k].name, FailuresOf(Noted)[k].result.msg>>]
      /\ pc = "loop" => successful + failed = i
      /\ ret.ok => /\ ret.val = <<successful, failed>>
                   /\ successful + failed = Len(files)

C2_Monotone == successful' >= successful /\ failed' >= failed

\* C2: the tally: successful + failed is the number of items done (i after
\* iteration i, N at the return), failed counts the items that raised, the
\* failure list pairs each failed item's name with its message in processing
\* order, the pair returned is (successful, failed), and no counter decreases.
C2_TallyExact == []C2_Tally /\ [][C2_Monotone]_vars

\* C2 witness: a returned batch with one success and one failure
C2_Witness ==
    /\ Batched /\ ret.ok /\ successful = 1 /\ failed = 1
    /\ outcomes[1].result.ok /\ failed_files = <<<<outcomes[2].name, outcomes[2].result.msg>>>>

\* C3: the exit status is 0 exactly when the single file was processed, every
\* item of the batch succeeded, or discovery found nothing; otherwise it is 1:
\* a missing input path, a path neither file nor directory, an exception at
\* the top level, a failed single file, a failed batch item.
C3_ExitCode ==
    (mode = "cli" /\ exit_code # NoExit) =>
      LET single_ok == args.kind = "file" /\ Len(outcomes) = 1 /\ outcomes[1].result.ok
          batch_ok == /\ args.kind = "dir" /\ files # <<>> /\ Len(outcomes) = Len(files)
                      /\ \A k \in 1..Len(outcomes) : outcomes[k].result.ok
          nothing == /\ args.kind = "dir" /\ top_error = Pending
                     /\ CollectFiles(tool, disk, args.recursive, args.pattern) = <<>>
      IN /\ exit_code \in {0, 1}
         /\ exit_code = 0 <=> (single_ok \/ batch_ok \/ nothing)
         /\ args.kind \in {"missing", "other"} => exit_code = 1
         /\ top_error # Pending => exit_code = 1
         /\ (\E k \in 1..Len(outcomes) : ~outcomes[k].result.ok) => exit_code = 1

\* C3 witness: a batch with a success and a failure has exited with status 1
C3_Witness ==
    /\ mode = "cli" /\ args.kind = "dir" /\ exit_code = 1
    /\ successful >= 1 /\ failed >= 1

\* C4: every item of one batch is sent the same prompt, whatever happens to
\* the prompt files meanwhile.
C4_SamePrompt ==
    Batched =>
      \A m, n \in 1..Len(calls) :
        (calls[m].op = "generate" /\ calls[n].op = "generate")
          => calls[m].prompt = calls[n].prompt

C5_DeleteOnce ==
    tool = "audio" =>
      /\ \A k \in 1..Len(invoked) : Cardinality(CallsOf("delete", k)) <= 1
      /\ \A n \in 1..Len(calls) :
           calls[n].op = "delete" =>
             \E m \in 1..(n - 1) : calls[m].op = "generate" /\ calls[m].item = calls[n].item
      /\ (cur.uploaded /\ cur.ipc = "returned")
           => Cardinality(CallsOf("delete", cur.item)) = 1
      /\ (cur.ipc \in {"begin", "upload", "generate", "write", "cleanup"} \/ ~cur.uploaded)
           => CallsOf("delete", cur.item) = {}

C5_Swallowed ==
    (tool = "audio" /\ cur.ipc = "cleanup") =>
      /\ cur'.result = cur.result
      /\ cur'.ipc = "returned" => outcomes'[Len(outcomes')].result = cur.result

\* C5: after a successful upload the attachment's deletion is attempted
\* exactly once, after the generation step, however that step ended; the
\* delete call's own failure leaves the item's result as it was.
C5_Cleanup == []C5_DeleteOnce /\ [][C5_Swallowed]_vars

\* C5 witness: the delete call failed and the item is still a success
C5_Witness ==
    /\ tool = "audio" /\ cur.ipc = "returned" /\ cur.uploaded
    /\ ~cur.delete_ok /\ cur.result.ok
    /\ Cardinality(CallsOf("delete", cur.item)) = 1

\* C6: an item's generation call is issued once when the item gets that far
\* and never again, whatever it answered; a remote call that raised makes
\* the item a failed item.
C6_OneGeneration ==
    mode \in {"cli", "call"} =>
      /\ \A k \in 1..Len(invoked) : Cardinality(CallsOf("generate", k)) <= 1
      /\ cur.response.kind # "pending" => Cardinality(CallsOf("generate", cur.item)) = 1
      /\ (cur.ipc # "idle" /\ cur.response.kind = "pending")
           => CallsOf("generate", cur.item) = {}
      /\ cur.response.kind = "error" =>
           /\ ~cur.result.ok
           /\ cur.ipc = "returned" => ~outcomes[Len(outcomes)].result.ok

\* C6 witness: the generation call raised, the item has failed after one call
C6_Witness ==
    /\ cur.response.kind = "error" /\ cur.ipc = "returned"
    /\ Cardinality(CallsOf("generate", cur.item)) = 1
    /\ ~outcomes[Len(outcomes)].result.ok

\* C7: an item whose generation call answered nothing, or an empty text, fails
\* and leaves every output file as it was when the item began; the batch
\* counts it as a failure.
C7_EmptyFails ==
    (\/ cur.response.kind = "none"
     \/ (cur.response.kind = "text" /\ cur.response.text = <<>>)) =>
      /\ ~cur.result.ok
      /\ cur.ipc \in {"cleanup", "returned"}
      /\ fs = cur.before
      /\ cur.ipc = "returned" => ~outcomes[Len(outcomes)].result.ok
      /\ (Batched /\ pc = "loop") =>
           /\ failed >= 1
           /\ failed_files[Len(failed_files)][1] = cur.path.name

\* C7 witness: an empty text came back and the file at the output path is the
\* old one
C7_Witness ==
    /\ cur.response.kind = "text" /\ cur.response.text = <<>> /\ cur.ipc = "returned"
    /\ cur.output \in DOMAIN fs /\ fs[cur.output] = OldText

\* the discoverer has returned
Collected == mode = "collect" /\ pc = "done"

\* C8: the discoverer returns exactly the files whose extension, lower-cased,
\* is in the allow-list, from the directory's children (or, when recursive,
\* all descendants), filtered by the pattern on the file name, sorted and
\* without duplicates.  Stated for the directories that hold regular files
\* only, where "the files" leaves no room for doubt.
C8_CollectExact ==
    (Collected /\ \A p \in Range(disk) : ~p.isdir) =>
      LET want == {p \in Range(disk) :
                     /\ ~p.isdir
                     /\ Lower(Suffix(p.name)) \in Range(Extensions(tool))
                     /\ args.recursive \/ p.dir = <<>>
                     /\ args.pattern = <<>> \/ FnMatch(p.name, args.pattern)}
      IN /\ Range(files) = want
         /\ Len(files) = Cardinality(want)
         /\ \A k \in 1..(Len(files) - 1) : PathLess(files[k], files[k + 1])

\* load_prompt has returned or raised
Loaded == mode = "prompt" /\ pc = "done"

\* the file the base prompt is read from: the custom prompt file when a custom
\* path is given, else the template of the task type
PromptSource ==
    IF args.prompt # None THEN pfiles.custom
    ELSE IF args.task # None THEN pfiles.template[args.task]
    ELSE Missing

EndsWith(text, tail) ==
    /\ Len(text) >= Len(tail)
    /\ SubSeq(text, Len(text) - Len(tail) + 1, Len(text)) = tail

\* C9: the custom prompt file, when a path is given, is the base prompt,
\* whatever the task type; else the template of the task type is; with neither
\* the call raises ValueError; a missing custom, template or rules file makes
\* it raise FileNotFoundError; a call that raises returns no text.
C9_Precedence ==
    Loaded =>
      LET named == args.prompt # None \/ args.task # None
          rules_missing == args.rules # None /\ ~pfiles.rules.exists
      IN /\ ~named => (~ret.ok /\ ret.type = "ValueError")
         /\ (named /\ ~PromptSource.exists)
              => (~ret.ok /\ ret.type = "FileNotFoundError")
         /\ (named /\ PromptSource.exists /\ rules_missing)
              => (~ret.ok /\ ret.type = "FileNotFoundError")
         /\ (named /\ PromptSource.exists /\ ~rules_missing)
              => (ret.ok /\ EndsWith(ret.val, PromptSource.content))
         /\ ~ret.ok => ret.val = <<>>

\* C9 witness: a custom path and a task type are both given, both files exist,
\* and the custom file's text was returned
C9_Witness ==
    /\ Loaded /\ args.prompt # None /\ args.task # None /\ args.rules = None
    /\ pfiles.template[args.task].exists /\ pfiles.custom = File(PromptText)
    /\ ret = Return(PromptText)

\* C10 as stated: a rules path whose file is empty or missing yields the base
\* prompt unchanged.
C10_EmptyOrMissingRules ==
    (/\ Loaded /\ PromptSource.exists /\ args.rules # None
     /\ (~pfiles.rules.exists \/ pfiles.rules.content = <<>>))
      => ret = Return(PromptSource.content)

\* C10 amended: a rules path whose file is empty yields the base prompt
\* unchanged, with no marker and no empty block; a rules path whose file is
\* missing makes the call raise FileNotFoundError.
C10_EmptyRulesUnchanged ==
    (Loaded /\ PromptSource.exists /\ args.rules # None) =>
      /\ (pfiles.rules.exists /\ pfiles.rules.content = <<>>)
           => ret = Return(PromptSource.content)
      /\ ~pfiles.rules.exists
           => (~ret.ok /\ ret.type = "FileNotFoundError" /\ ret.val = <<>>)

\* C10 witness: the rules file is empty and the template's text came back as it is
C10_Witness ==
    /\ Loaded /\ args.rules # None /\ pfiles.rules = File(<<>>)
    /\ args.prompt = None /\ args.task = "summarize"
    /\ ret = Return(TemplateText("summarize"))

\* the fields of a record after the identifier, in the fixed order: judgment,
\* correct form, incorrect form, applicability condition, example, note; each
\* with the label it is rendered under
FieldOrder ==
    << <<"hantei", "hantei">>, <<"seikai", "tadashii_hyouki">>,
       <<"ng_rei", "ayamatta_hyouki">>, <<"jouken", "jouken">>,
       <<"bunshourei", "rei">>, <<"bikou", "bikou">> >>

\* the record of a rule that renders the fields in shown: the header line with
\* the identifier, the shown fields in the fixed order, a closing blank line
RecordOf(rule, shown) ==
    LET Keep(f) == f[1] \in shown
        sel == SelectSeq(FieldOrder, Keep)
    IN << <<"rule_header", IF "id" \in DOMAIN rule THEN rule["id"] ELSE "">> >>
       \o [n \in 1..Len(sel) |-> <<sel[n][2], rule[sel[n][1]]>>]
       \o << <<"blank", "">> >>

\* the keys a rule has, and those among them that hold a non-empty value
PresentKeys(rule) == DOMAIN rule

FilledKeys(rule) == {k \in DOMAIN rule : rule[k] # ""}

\* load_prompt returned for a rules path whose file holds at least one rule
RulesRendered ==
    /\ Loaded /\ PromptSource.exists /\ args.rules # None
    /\ pfiles.rules.exists /\ pfiles.rules.content # <<>>

\* the text is: start marker, instruction, the given records in order, end
\* marker, base prompt
ComposedOf(text, records, base) ==
    LET lens == [n \in 1..Len(records) |-> Len(records[n])]
        RECURSIVE Upto(_)
        Upto(n) == IF n = 0 THEN 0 ELSE Upto(n - 1) + lens[n]
        total == Upto(Len(records))
    IN /\ Len(text) = 2 + total + 1 + Len(base)
       /\ text[1] = <<"start_marker", "">> /\ text[2] = <<"instruction", "">>
       /\ \A n \in 1..Len(records) :
             SubSeq(text, 2 + Upto(n - 1) + 1, 2 + Upto(n)) = records[n]
       /\ text[2 + total + 1] = <<"end_marker", "">>
       /\ SubSeq(text, 2 + total + 2, Len(text)) = base

\* C11 as stated: for a non-empty rules file the composed prompt is the start
\* marker, one record per rule in file order, the end marker, then the base
\* prompt; each record renders exactly the fields present in its rule, in the
\* fixed order, and omits the absent ones.  (The header line, the record's
\* label, carries the identifier.)
C11_PresentFields ==
    RulesRendered =>
      LET rules_data == pfiles.rules.content
      IN /\ ret.ok
         /\ ComposedOf(ret.val,
                       [n \in 1..Len(rules_data) |->
                          RecordOf(rules_data[n], PresentKeys(rules_data[n]))],
                       PromptSource.content)

\* C11 amended: as above, but each record renders exactly the fields whose
\* value is non-empty: a field the rule has with an empty value is omitted
\* like an absent one; the header line is always rendered, with an empty
\* identifier when the rule has none.
C11_FilledFields ==
    RulesRendered =>
      LET rules_data == pfiles.rules.content
      IN /\ ret.ok
         /\ ComposedOf(ret.val,
                       [n \in 1..Len(rules_data) |->
                          RecordOf(rules_data[n], FilledKeys(rules_data[n]))],
                       PromptSource.content)

\* C11 witness: two different rules, one of them with an empty field and one
\* with every field, were rendered in front of the template's text
C11_Witness ==
    /\ RulesRendered /\ pfiles.rules.content = <<OneRule, FullRule>>
    /\ args.prompt = None /\ ret.ok
    /\ Len(ret.val) = 2 + 3 + 8 + 1 + 1

\* the single-item call has returned without raising
Succeeded == Running /\ cur.ipc = "returned" /\ cur.result.ok

\* main() was given a single file
SingleFile == mode = "cli" /\ args.kind = "file"

\* the task marker and the extension of a derived output name
TaskMarker ==
    IF tool = "audio" THEN "_transcript"
    ELSE IF args.task = "summarize" THEN "_summarize"
    ELSE IF args.task = "headline" THEN "_headline"
    ELSE "_processed"

OutputExtension == IF tool = "audio" THEN ".txt" ELSE ".md"

\* the output path the claim gives the current item: the explicit path of a
\* single-file run; else stem + marker + extension, in the output directory
\* of a batch that has one, else next to the input file
ExpectedOutput ==
    LET name == Stem(cur.path.name) \o <<TaskMarker, OutputExtension>>
    IN IF SingleFile /\ args.output # NoPath THEN args.output
       ELSE IF Batched /\ args.output_dir # None THEN OutPath("out", <<>>, name)
       ELSE OutPath("in", cur.path.dir, name)

\* C12: the output path of an item is a function of its input path, the task
\* and the output directory: stem + task marker + fixed extension next to the
\* input file, or in the output directory of a batch; an explicit output path
\* of a single-file run is used as it is.  On success the generated text is
\* at exactly that path, in place of whatever was there, and no other output
\* file has changed.
C12_OutputPath ==
    Succeeded =>
      /\ cur.output = ExpectedOutput
      /\ fs = WriteText(cur.before, ExpectedOutput, cur.response.text)
      /\ fs[ExpectedOutput] = GenText

\* C12 witness: an item of a text batch with an output directory succeeded,
\* and its text replaced the file that was at its output path
C12_Witness ==
    /\ Succeeded /\ tool = "text" /\ Batched /\ args.output_dir # None
    /\ ExpectedOutput \in DOMAIN cur.before
    /\ cur.before[ExpectedOutput] = OldText
    /\ fs[ExpectedOutput] = GenText

\* the output path the batch gives its k-th file
ItemOutput(k) ==
    ResolveOutput(tool, files[k], BatchOutput(tool, files[k], args.output_dir, args.task),
                  args.task)

\* C13: within one batch over discovered files, two distinct input files that
\* were both processed with success have different output paths, so the
\* output of the earlier one is not overwritten by the later one.
C13_DistinctOutputs ==
    (mode = "cli" /\ args.kind = "dir") =>
      \A j \in 1..Len(outcomes) : \A k \in 1..Len(outcomes) :
        (/\ j < k /\ files[j] # files[k]
         /\ outcomes[j].result.ok /\ outcomes[k].result.ok)
          => ItemOutput(j) # ItemOutput(k)

\* C14: in transcribe_audio the upload is attempted only for a path that
\* exists and has a supported extension, the existence check coming first;
\* the generation call is issued only after the upload call, and only when the
\* upload succeeded; an item that failed a check, or whose upload failed, fails
\* with no generation call, no delete call and no output file written.
C14_Gated ==
    (Running /\ tool = "audio" /\ cur.ipc # "idle") =>
      LET k == cur.item
          checked == Exists(cur.path) /\ Supported("audio", cur.path)
      IN /\ CallsOf("upload", k) # {} => checked
         /\ \A n \in CallsOf("generate", k) :
               cur.uploaded /\ \E m \in CallsOf("upload", k) : m < n
         /\ ~cur.uploaded =>
               /\ CallsOf("generate", k) = {} /\ CallsOf("delete", k) = {}
               /\ fs = cur.before
         /\ (cur.ipc = "returned" /\ ~cur.uploaded) => ~cur.result.ok
         /\ (cur.ipc = "returned" /\ ~Exists(cur.path))
               => cur.result.type = "FileNotFoundError"
         /\ (cur.ipc = "returned" /\ Exists(cur.path) /\ ~Supported("audio", cur.path))
               => cur.result.type = "ValueError"

\* C14 witness: the upload of an existing, supported audio file was attempted
\* and failed, and the call has ended in failure
C14_Witness ==
    /\ Running /\ tool = "audio" /\ cur.ipc = "returned"
    /\ Exists(cur.path) /\ Supported("audio", cur.path)
    /\ CallsOf("upload", cur.item) # {} /\ ~cur.uploaded
    /\ ~cur.result.ok

====
